---------------------------- MODULE Spec2Model ----------------------------
(***************************************************************************)
(* gully: a layered reader of configuration variables (src/gully.py).      *)
(*                                                                         *)
(* A VariableReader holds an ordered list of providers (the process        *)
(* environment, a KEY=value file) and resolves a key by asking them in     *)
(* order.  Text is modelled as a sequence of one-character strings, so     *)
(* that strip, split, lower and int are computed character by character.   *)
(***************************************************************************)
EXTENDS Integers, Sequences, FiniteSets, TLC

VARIABLES
    environ,        \* os.environ: a function from the set variables to their text
    disk,           \* the file at the provider's path: NoFile, or its text
    reader,         \* the VariableReader: not built, built (providers), or failed
    result,         \* the last call made on the reader and what it gave
    probe,          \* the argument handed to value_to_bool
    environAtInit,  \* history: os.environ when the reader was constructed
    diskAtInit      \* history: the file when the reader was constructed

vars == <<environ, disk, reader, result, probe, environAtInit, diskAtInit>>

---------------------------------------------------------------------------
(* Bounds of the model.                                                    *)

\* longest file text enumerated by SpecFile
MaxFileLen == 6
\* longest string handed to value_to_bool by SpecBool
MaxStrLen == 4
\* integers handed to value_to_bool range over -MaxInt..MaxInt
MaxInt == 2

---------------------------------------------------------------------------
(* Text.                                                                   *)

\* the characters str.strip() removes (the ASCII ones)
Whitespace == {" ", "\t", "\n", "\r", "\f"}

RECURSIVE LStrip(_)
LStrip(s) ==
    IF s # <<>> /\ Head(s) \in Whitespace THEN LStrip(Tail(s)) ELSE s

RECURSIVE RStrip(_)
RStrip(s) ==
    IF s # <<>> /\ s[Len(s)] \in Whitespace
    THEN RStrip(SubSeq(s, 1, Len(s) - 1))
    ELSE s

\* str.strip()
Strip(s) == RStrip(LStrip(s))

\* str.startswith(c) for a one-character prefix
StartsWith(s, c) == s # <<>> /\ Head(s) = c

\* str.partition at the first sep: the text after the first sep, given that
\* before holds what precedes the scan position
RECURSIVE SplitFrom(_, _, _)
SplitFrom(before, rest, sep) ==
    IF rest = <<>> THEN <<before>>
    ELSE IF Head(rest) = sep THEN <<before, Tail(rest)>>
    ELSE SplitFrom(Append(before, Head(rest)), Tail(rest), sep)

\* faulty variant of SplitOnce: splits at the last sep (str.rsplit)
RECURSIVE SplitFromRight(_, _, _)
SplitFromRight(rest, after, sep) ==
    IF rest = <<>> THEN <<after>>
    ELSE IF rest[Len(rest)] = sep
         THEN <<SubSeq(rest, 1, Len(rest) - 1), after>>
         ELSE SplitFromRight(SubSeq(rest, 1, Len(rest) - 1),
                             <<rest[Len(rest)]>> \o after, sep)

SplitOnceAtLast(s, sep) == SplitFromRight(s, <<>>, sep)

\* str.split(sep, 1): one part when sep is absent, else the text before the
\* first sep and everything after it
SplitOnce(s, sep) == SplitFrom(<<>>, s, sep)

\* iterating a text file: each line keeps its terminating newline, the last
\* line may lack one
RECURSIVE LinesFrom(_, _)
LinesFrom(cur, rest) ==
    IF rest = <<>> THEN (IF cur = <<>> THEN <<>> ELSE <<cur>>)
    ELSE IF Head(rest) = "\n"
         THEN <<Append(cur, "\n")>> \o LinesFrom(<<>>, Tail(rest))
         ELSE LinesFrom(Append(cur, Head(rest)), Tail(rest))

FileLines(text) == LinesFrom(<<>>, text)

LowerChar(c) ==
    CASE c = "Y" -> "y" [] c = "E" -> "e" [] c = "S" -> "s"
      [] c = "T" -> "t" [] c = "R" -> "r" [] c = "U" -> "u"
      [] c = "A" -> "a" [] c = "B" -> "b" [] c = "N" -> "n"
      [] c = "O" -> "o"
      [] OTHER -> c

\* str.lower()
Lower(s) == [i \in 1..Len(s) |-> LowerChar(s[i])]

---------------------------------------------------------------------------
(* Values, and what a call gives.                                          *)

\* a Python value: its type, and the payload of that type
Value(kind, s, n, b) == [kind |-> kind, s |-> s, n |-> n, b |-> b, marks |-> 0]

StrV(s)  == Value("str", s, 0, FALSE)
IntV(n)  == Value("int", <<>>, n, FALSE)
BoolV(b) == Value("bool", <<>>, 0, b)
NoneV    == Value("NoneType", <<>>, 0, FALSE)
FloatV   == Value("float", <<>>, 0, FALSE)
\* the closure `lambda v: callback(t(v))`
FunctionV == Value("function", <<>>, 0, FALSE)
\* the sentinel _empty, the only instance of _emptyType
EMPTY    == Value("_emptyType", <<>>, 0, FALSE)

\* a call returns a value or raises an exception
Return(v) == [exc |-> "", value |-> v]
Raise(e)  == [exc |-> e, value |-> NoneV]

---------------------------------------------------------------------------
(* EnvFileProvider.                                                        *)

NoFile == <<"<no file>">>

EmptyDict == [k \in {} |-> <<>>]

\* variables[key] = value
Put(d, key, value) ==
    [k \in DOMAIN d \cup {key} |-> IF k = key THEN value ELSE d[k]]

\* faulty variant of ReadLines: a line without "=" is skipped
RECURSIVE ReadLinesSkipping(_, _)
ReadLinesSkipping(lines, variables) ==
    IF lines = <<>> THEN [exc |-> "", values |-> variables]
    ELSE LET line == Head(lines) IN
         IF StartsWith(line, "#") \/ Strip(line) = <<>>
         THEN ReadLinesSkipping(Tail(lines), variables)
         ELSE LET parts == SplitFrom(<<>>, Strip(line), "=") IN
              IF Len(parts) # 2
              THEN ReadLinesSkipping(Tail(lines), variables)
              ELSE ReadLinesSkipping(Tail(lines),
                             Put(variables, Strip(parts[1]), Strip(parts[2])))

\* the loop of _read_file over the remaining lines: the dict, or the
\* ValueError of unpacking a line that has no "="
RECURSIVE ReadLines(_, _)
ReadLines(lines, variables) ==
    IF lines = <<>> THEN [exc |-> "", values |-> variables]
    ELSE LET line == Head(lines) IN
         IF StartsWith(line, "#") \/ Strip(line) = <<>>
         THEN ReadLines(Tail(lines), variables)
         ELSE LET parts == SplitOnce(Strip(line), "=") IN
              IF Len(parts) # 2
              THEN [exc |-> "ValueError", values |-> EmptyDict]
              ELSE ReadLines(Tail(lines),
                             Put(variables, Strip(parts[1]), Strip(parts[2])))

ReadFile(text) == ReadLines(FileLines(text), EmptyDict)

\* dict.get(key, default)
DictGet(d, key, default) == IF key \in DOMAIN d THEN d[key] ELSE default

\* faulty variant of FileProviderInit: require_file is not consulted
FileProviderInitLenient(opts, file) ==
    IF file = NoFile THEN [exc |-> "", values |-> EmptyDict]
    ELSE ReadFile(file)

\* EnvFileProvider(options=opts) with the file as it is now: the provider,
\* or the exception the constructor raises
FileProviderInit(opts, file) ==
    IF file = NoFile
    THEN IF DictGet(opts, "require_file", FALSE)
         THEN [exc |-> "Exception", values |-> EmptyDict]
         ELSE [exc |-> "", values |-> EmptyDict]
    ELSE ReadFile(file)

\* faulty variant of FileProviderGet: the file is read again on every get
FileProviderGetReread(values, key) ==
    LET now == IF disk = NoFile THEN EmptyDict ELSE ReadFile(disk).values IN
    IF key \notin DOMAIN now THEN Raise("KeyError")
    ELSE Return(StrV(now[key]))

\* EnvFileProvider.get
FileProviderGet(values, key) ==
    IF key \notin DOMAIN values THEN Raise("KeyError")
    ELSE Return(StrV(values[key]))

\* faulty variant of EnvProviderGet: answers from the environment as it was
\* when the reader was constructed
EnvProviderGetAtInit(key) ==
    IF key \notin DOMAIN environAtInit THEN Raise("KeyError")
    ELSE Return(StrV(environAtInit[key]))

\* EnvVariablesProvider.get
EnvProviderGet(key) ==
    IF key \notin DOMAIN environ THEN Raise("KeyError")
    ELSE Return(StrV(environ[key]))


---------------------------------------------------------------------------
(* Coercions: the t of __typed_get.                                        *)

Digits == {"0", "1", "2", "3", "4", "5", "6", "7", "8", "9"}

DigitValue(c) ==
    CASE c = "0" -> 0 [] c = "1" -> 1 [] c = "2" -> 2 [] c = "3" -> 3
      [] c = "4" -> 4 [] c = "5" -> 5 [] c = "6" -> 6 [] c = "7" -> 7
      [] c = "8" -> 8 [] c = "9" -> 9

\* the digits of an int literal; single underscores may separate digits
IsDigitString(s) ==
    /\ s # <<>>
    /\ s[1] \in Digits
    /\ s[Len(s)] \in Digits
    /\ \A i \in 1..Len(s) : s[i] \in Digits \cup {"_"}
    /\ \A i \in 1..(Len(s) - 1) : ~(s[i] = "_" /\ s[i + 1] = "_")

RECURSIVE DigitsValue(_, _)
DigitsValue(s, acc) ==
    IF s = <<>> THEN acc
    ELSE IF Head(s) = "_" THEN DigitsValue(Tail(s), acc)
    ELSE DigitsValue(Tail(s), 10 * acc + DigitValue(Head(s)))

\* int(text): surrounding whitespace and one sign are allowed
IntOfStr(s) ==
    LET t    == Strip(s)
        neg  == StartsWith(t, "-")
        body == IF StartsWith(t, "-") \/ StartsWith(t, "+") THEN Tail(t) ELSE t
    IN  IF ~IsDigitString(body) THEN Raise("ValueError")
        ELSE Return(IntV(IF neg THEN 0 - DigitsValue(body, 0)
                                ELSE DigitsValue(body, 0)))

\* faulty variant of ValueToBool: the text is compared without lower()
ValueToBoolCaseSensitive(value) ==
    IF value.kind = "str"
    THEN Return(BoolV(value.s \in
            {<<"y">>, <<"y", "e", "s">>, <<"t", "r", "u", "e">>, <<"1">>}))
    ELSE IF value.kind = "bool" THEN Return(value)
    ELSE IF value.kind = "int" THEN Return(BoolV(value.n = 1))
    ELSE Raise("TypeError")

\* VariableReader.value_to_bool
ValueToBool(value) ==
    IF value.kind = "str"
    THEN Return(BoolV(Lower(value.s) \in
            {<<"y">>, <<"y", "e", "s">>, <<"t", "r", "u", "e">>, <<"1">>}))
    ELSE IF value.kind = "bool" THEN Return(value)
    ELSE IF value.kind = "int" THEN Return(BoolV(value.n = 1))
    ELSE Raise("TypeError")

\* t(v) for the t each typed accessor passes, on the text a provider returns
Coerce(t, v) ==
    CASE t = "bool" -> ValueToBool(v)
      [] t = "str"  -> Return(v)
      [] t = "int"  -> IntOfStr(v.s)

---------------------------------------------------------------------------
(* Callables.                                                              *)

\* a callable: a caller's callback, the lambda __typed_get builds around the
\* caller's callback, or the sentinel _empty standing for "no callback"
Callable(kind, name, t, inner) ==
    [kind |-> kind, name |-> name, t |-> t, inner |-> inner]

NoCallback == Callable("_emptyType", "", "", "")

\* the caller's callback `mark`: returns its argument with one more mark
UserCallback(name) == Callable("user", name, "", "")

ApplyUser(name, v) == [v EXCEPT !.marks = @ + 1]

\* the outer lambda of __typed_get, closing over t and the caller's callback
TypedLambda(t, callback) == Callable("lambda", callback.name, t, callback.kind)

\* f(v)
Call(f, v) ==
    IF f.kind = "user" THEN Return(ApplyUser(f.name, v))
    ELSE \* lambda v: t(v) if callback is _empty else lambda v: callback(t(v))
         IF f.inner = "_emptyType" THEN Coerce(f.t, v)
         ELSE Return(FunctionV)

---------------------------------------------------------------------------
(* VariableReader.                                                         *)

DefaultProviders == <<"EnvVariablesProvider", "EnvFileProvider">>

OptionName(cls) ==
    IF cls = "EnvVariablesProvider" THEN "environ" ELSE "env_file"

\* provider(options=opts): EnvVariablesProvider ignores its options
ProviderInit(cls, opts, file) ==
    IF cls = "EnvVariablesProvider"
    THEN [exc |-> "", values |-> EmptyDict]
    ELSE FileProviderInit(opts, file)

\* the loop of __init__: the providers built so far, or the first exception
RECURSIVE BuildProviders(_, _, _, _)
BuildProviders(classes, options, file, built) ==
    IF classes = <<>> THEN [exc |-> "", providers |-> built]
    ELSE LET cls == Head(classes)
             p   == ProviderInit(cls, DictGet(options, OptionName(cls), EmptyDict),
                                 file)
         IN  IF p.exc # "" THEN [exc |-> p.exc, providers |-> <<>>]
             ELSE BuildProviders(Tail(classes), options, file,
                     Append(built, [cls |-> cls, values |-> p.values]))

\* VariableReader(providers, **options)
ReaderInit(providers, options, file) ==
    BuildProviders(IF providers = <<>> THEN DefaultProviders ELSE providers,
                   options, file, <<>>)

ProviderGet(p, key) ==
    IF p.cls = "EnvVariablesProvider" THEN EnvProviderGet(key)
    ELSE FileProviderGet(p.values, key)

\* faulty variant of Lookup: the loop has no break, the last provider wins
RECURSIVE LookupLastWins(_, _)
LookupLastWins(providers, key) ==
    IF providers = <<>> THEN EMPTY
    ELSE LET r == ProviderGet(providers[Len(providers)], key) IN
         IF r.exc = "KeyError"
         THEN LookupLastWins(SubSeq(providers, 1, Len(providers) - 1), key)
         ELSE r.value

\* the loop of get: the value of the first provider that does not raise
\* KeyError, or _empty
RECURSIVE Lookup(_, _)
Lookup(providers, key) ==
    IF providers = <<>> THEN EMPTY
    ELSE LET r == ProviderGet(Head(providers), key) IN
         IF r.exc = "KeyError" THEN Lookup(Tail(providers), key)
         ELSE r.value

\* faulty variant of Resolve: `default is None` stands for "no default"
ResolveNoneAsMissing(value, key, default, callback) ==
    IF value = EMPTY
    THEN IF default \in {EMPTY, NoneV} THEN Raise("KeyError")
         ELSE Return(default)
    ELSE IF callback # NoCallback THEN Call(callback, value)
    ELSE Return(value)

\* faulty variant of Resolve: `if not value` stands for "not found"
ResolveFalsy(value, key, default, callback) ==
    IF value = EMPTY \/ (value.kind = "str" /\ value.s = <<>>)
    THEN IF default = EMPTY THEN Raise("KeyError") ELSE Return(default)
    ELSE IF callback # NoCallback THEN Call(callback, value)
    ELSE Return(value)

\* the rest of get: default, KeyError, callback
Resolve(value, key, default, callback) ==
    IF value = EMPTY
    THEN IF default = EMPTY THEN Raise("KeyError") ELSE Return(default)
    ELSE IF callback # NoCallback THEN Call(callback, value)
    ELSE Return(value)

\* VariableReader.get
ReaderGet(providers, key, default, callback) ==
    Resolve(Lookup(providers, key), key, default, callback)

\* VariableReader.__typed_get
TypedGet(providers, key, default, callback, t) ==
    ReaderGet(providers, key, default, TypedLambda(t, callback))

---------------------------------------------------------------------------
(* The inputs the model draws from.                                        *)

Keys == {<<"A">>, <<"B">>}

EnvValues == {<<>>, <<"1">>}

\* every os.environ over Keys
Environments == UNION {[D -> EnvValues] : D \in SUBSET Keys}

\* "# c\n\nA=1\nB = 2\n"
FileCommentBlankAB ==
    <<"#", " ", "c", "\n", "\n", "A", "=", "1", "\n",
      "B", " ", "=", " ", "2", "\n">>

\* "A=\n"
FileEmptyA == <<"A", "=", "\n">>

\* "A=yes\nB\n"
FileMalformed == <<"A", "=", "y", "e", "s", "\n", "B", "\n">>

\* "KEY = value  \n"
FileKeyValue ==
    <<"K", "E", "Y", " ", "=", " ", "v", "a", "l", "u", "e", " ", " ", "\n">>

SampleFiles == {FileCommentBlankAB, FileEmptyA, FileMalformed}

FileChars == {" ", "#", "=", "A", "\n"}

\* every file text of at most MaxFileLen characters
FileTexts == UNION {[1..n -> FileChars] : n \in 0..MaxFileLen}

\* a provider's option block: require_file omitted, true or false
OptionBlocks ==
    {EmptyDict} \cup {[k \in {"require_file"} |-> b] : b \in BOOLEAN}

\* the **options of VariableReader
OptionSets ==
    UNION {[D -> OptionBlocks] : D \in SUBSET {"environ", "env_file"}}

\* the providers argument of VariableReader; <<>> selects the default pair
ProviderTuples ==
    {<<>>,
     <<"EnvVariablesProvider">>,
     <<"EnvFileProvider">>,
     <<"EnvVariablesProvider", "EnvFileProvider">>,
     <<"EnvFileProvider", "EnvVariablesProvider">>}

\* the default argument: not supplied (_empty), None, or the text "5"
Defaults == {EMPTY, NoneV, StrV(<<"5">>)}

\* the callback argument: not supplied (_empty), or the caller's mark
Callbacks == {NoCallback, UserCallback("mark")}

BoolChars ==
    {"y", "e", "s", "t", "r", "u", "1", "Y", "E", "S", "T", "R", "U", "0", "n"}

\* the arguments of value_to_bool
BoolInputs ==
    {StrV(s) : s \in UNION {[1..n -> BoolChars] : n \in 0..MaxStrLen}}
    \cup {IntV(n) : n \in (0 - MaxInt)..MaxInt}
    \cup {BoolV(b) : b \in BOOLEAN}
    \cup {NoneV, FloatV, FunctionV}

---------------------------------------------------------------------------
(* State.                                                                  *)

NotBuilt == [status |-> "none", providers |-> <<>>, exc |-> ""]

NoResult ==
    [op |-> "", key |-> <<>>, default |-> EMPTY, callback |-> NoCallback,
     out |-> Return(NoneV)]

CallResult(op, key, default, callback, out) ==
    [op |-> op, key |-> key, default |-> default, callback |-> callback,
     out |-> out]

\* the process starts with some environment and some file; no reader yet
Init ==
    /\ environ \in Environments
    /\ disk \in SampleFiles \cup {NoFile}
    /\ reader = NotBuilt
    /\ result = NoResult
    /\ probe = NoneV
    /\ environAtInit = EmptyDict
    /\ diskAtInit = NoFile

\* os.environ[key] = value, by the process
SetEnv(key, value) ==
    /\ key \in DOMAIN environ => environ[key] # value
    /\ environ' = Put(environ, key, value)
    /\ result' = NoResult
    /\ UNCHANGED <<disk, reader, probe, environAtInit, diskAtInit>>

\* del os.environ[key]
UnsetEnv(key) ==
    /\ key \in DOMAIN environ
    /\ environ' = [k \in DOMAIN environ \ {key} |-> environ[k]]
    /\ result' = NoResult
    /\ UNCHANGED <<disk, reader, probe, environAtInit, diskAtInit>>

\* the file is created or rewritten
WriteFile(text) ==
    /\ disk # text
    /\ disk' = text
    /\ result' = NoResult
    /\ UNCHANGED <<environ, reader, probe, environAtInit, diskAtInit>>

\* the file is deleted
RemoveFile ==
    /\ disk # NoFile
    /\ disk' = NoFile
    /\ result' = NoResult
    /\ UNCHANGED <<environ, reader, probe, environAtInit, diskAtInit>>

\* reader = VariableReader(providers, **options)
Construct(providers, options) ==
    /\ reader.status = "none"
    /\ LET r == ReaderInit(providers, options, disk) IN
       reader' = IF r.exc = ""
                 THEN [status |-> "built", providers |-> r.providers, exc |-> ""]
                 ELSE [status |-> "failed", providers |-> <<>>, exc |-> r.exc]
    /\ environAtInit' = environ
    /\ diskAtInit' = disk
    /\ UNCHANGED <<environ, disk, result, probe>>

\* reader.get(key, default, callback)
Get(key, default, callback) ==
    /\ reader.status = "built"
    /\ result' = CallResult("get", key, default, callback,
                            ReaderGet(reader.providers, key, default, callback))
    /\ UNCHANGED <<environ, disk, reader, probe, environAtInit, diskAtInit>>

\* reader.str / reader.int / reader.bool (key, default, callback)
TypedCall(t, key, default, callback) ==
    /\ reader.status = "built"
    /\ result' = CallResult(t, key, default, callback,
                            TypedGet(reader.providers, key, default, callback, t))
    /\ UNCHANGED <<environ, disk, reader, probe, environAtInit, diskAtInit>>

Next ==
    \/ \E k \in Keys, v \in EnvValues : SetEnv(k, v)
    \/ \E k \in Keys : UnsetEnv(k)
    \/ \E text \in SampleFiles : WriteFile(text)
    \/ RemoveFile
    \/ \E ps \in ProviderTuples, os \in OptionSets : Construct(ps, os)
    \/ \E k \in Keys, d \in Defaults, cb \in Callbacks : Get(k, d, cb)
    \/ \E t \in {"str", "int", "bool"}, k \in Keys, d \in Defaults,
          cb \in Callbacks : TypedCall(t, k, d, cb)

Spec == Init /\ [][Next]_vars

---------------------------------------------------------------------------
(* EnvFileProvider alone, over every short file.                           *)

InitFile ==
    /\ environ = EmptyDict
    /\ disk \in FileTexts \cup SampleFiles \cup {FileKeyValue, NoFile}
    /\ reader = NotBuilt
    /\ result = NoResult
    /\ probe = NoneV
    /\ environAtInit = EmptyDict
    /\ diskAtInit = NoFile

\* VariableReader((EnvFileProvider,), env_file=block)
ConstructFileProvider(block) ==
    Construct(<<"EnvFileProvider">>, [k \in {"env_file"} |-> block])

NextFile == \E block \in OptionBlocks : ConstructFileProvider(block)

SpecFile == InitFile /\ [][NextFile]_vars

---------------------------------------------------------------------------
(* value_to_bool alone, over every short string and small integer.         *)

InitBool ==
    /\ environ = EmptyDict
    /\ disk = NoFile
    /\ reader = NotBuilt
    /\ result = NoResult
    /\ probe \in BoolInputs
    /\ environAtInit = EmptyDict
    /\ diskAtInit = NoFile

\* VariableReader.value_to_bool(probe)
CallValueToBool ==
    /\ result.op = ""
    /\ result' = CallResult("value_to_bool", <<>>, EMPTY, NoCallback,
                            ValueToBool(probe))
    /\ UNCHANGED <<environ, disk, reader, probe, environAtInit, diskAtInit>>

NextBool == CallValueToBool

SpecBool == InitBool /\ [][NextBool]_vars

---------------------------------------------------------------------------
(* What the properties are stated in.                                      *)

Providers == reader.providers

IsEnv(i)  == Providers[i].cls = "EnvVariablesProvider"
IsFile(i) == Providers[i].cls = "EnvFileProvider"

\* provider i holds the key now
Holds(i, key) ==
    IF IsEnv(i) THEN key \in DOMAIN environ
    ELSE key \in DOMAIN Providers[i].values

\* the text provider i holds for the key
Held(i, key) == IF IsEnv(i) THEN environ[key] ELSE Providers[i].values[key]

\* provider i holds the key and no provider before it does
IsFirstHolder(i, key) ==
    Holds(i, key) /\ \A j \in 1..(i - 1) : ~Holds(j, key)

IsReaderCall == result.op \in {"get", "str", "int", "bool"}

\* the call recorded in result returned the found text, through the caller's
\* callback when one was given
Answered(text) ==
    result.out =
        Return(IF result.callback = NoCallback THEN StrV(text)
               ELSE ApplyUser(result.callback.name, StrV(text)))

\* the call recorded in result ended as for a key nobody holds
AnsweredByDefault ==
    result.out = IF result.default = EMPTY THEN Raise("KeyError")
                 ELSE Return(result.default)

\* the call recorded in result was answered by the providers after i
AnsweredAfter(i) ==
    LET later == {j \in (i + 1)..Len(Providers) : Holds(j, result.key)} IN
    IF later = {} THEN AnsweredByDefault
    ELSE \A j \in later :
            (\A h \in later : j <= h) => Answered(Held(j, result.key))

\* C1: get returns the value of the first provider, in construction order,
\* that holds the key; with the default pair a key set in the environment is
\* answered from the environment whatever the file holds.
C1_FirstProviderWins ==
    result.op = "get" =>
        /\ \A i \in 1..Len(Providers) :
              IsFirstHolder(i, result.key) => Answered(Held(i, result.key))
        /\ ( /\ [i \in 1..Len(Providers) |-> Providers[i].cls] = DefaultProviders
             /\ result.key \in DOMAIN environ )
           => Answered(environ[result.key])

\* both providers hold the key, with different text, and get was called
C1_Witness ==
    /\ result.op = "get"
    /\ Len(Providers) = 2
    /\ Holds(1, result.key) /\ Holds(2, result.key)
    /\ Held(1, result.key) # Held(2, result.key)
    /\ IsFile(1)

\* C2: for a key no provider holds, get and the typed accessors raise
\* KeyError when no default is supplied and otherwise return the default
\* itself, None included, without coercion and without the callback.
C2_AbsentKeyGivesDefault ==
    (IsReaderCall /\ \A i \in 1..Len(Providers) : ~Holds(i, result.key))
        => AnsweredByDefault

\* int() of an absent key with default None and a callback returned None
C2_Witness ==
    /\ result.op = "int"
    /\ \A i \in 1..Len(Providers) : ~Holds(i, result.key)
    /\ result.default = NoneV
    /\ result.callback = UserCallback("mark")
    /\ result.out = Return(NoneV)

\* C5: a get that reaches the environment provider is answered from the
\* environment as it is at the call, and from the later providers or the
\* default once the variable is unset.
C5_EnvironmentIsLive ==
    result.op = "get" =>
        \A i \in 1..Len(Providers) :
            (IsEnv(i) /\ \A j \in 1..(i - 1) : ~Holds(j, result.key)) =>
                IF result.key \in DOMAIN environ
                THEN Answered(environ[result.key])
                ELSE AnsweredAfter(i)

\* the variable was changed after the reader was constructed and get
\* returned the new text
C5_Witness ==
    /\ result.op = "get"
    /\ result.callback = NoCallback
    /\ \E i \in 1..Len(Providers) : IsEnv(i) /\ IsFirstHolder(i, result.key)
    /\ result.key \in DOMAIN environAtInit
    /\ environAtInit[result.key] # environ[result.key]
    /\ result.out = Return(StrV(environ[result.key]))

\* the mapping an EnvFileProvider built over this file holds
SnapshotOf(file) == IF file = NoFile THEN EmptyDict ELSE ReadFile(file).values

C10_EmptyStringIsFound ==
    result.op = "get" =>
        \A i \in 1..Len(Providers) :
            (IsFirstHolder(i, result.key) /\ Held(i, result.key) = <<>>) =>
                /\ result.out.exc = ""
                /\ result.out.value.kind = "str"
                /\ result.out.value.s = <<>>

\* the first provider holds "", the second holds other text, a default was
\* supplied, and get returned ""
C10_Witness ==
    /\ result.op = "get"
    /\ Len(Providers) = 2
    /\ Holds(1, result.key) /\ Held(1, result.key) = <<>>
    /\ Holds(2, result.key) /\ Held(2, result.key) # <<>>
    /\ result.default = StrV(<<"5">>)
    /\ result.out = Return(StrV(<<>>))

\* C3: a typed accessor on a found key returns callback(coerce(value)) when
\* the caller supplies a callback and coerce(value) when not.
C3_TypedAccessorComposes ==
    result.op \in {"str", "int", "bool"} =>
        \A i \in 1..Len(Providers) : IsFirstHolder(i, result.key) =>
            LET coerced == Coerce(result.op, StrV(Held(i, result.key))) IN
            result.out =
                IF coerced.exc # "" \/ result.callback = NoCallback THEN coerced
                ELSE Return(ApplyUser(result.callback.name, coerced.value))

\* VariableReader(providers, **options) includes an EnvFileProvider
HasFileProvider(providers) ==
    LET classes == IF providers = <<>> THEN DefaultProviders ELSE providers IN
    \E i \in 1..Len(classes) : classes[i] = "EnvFileProvider"

\* the env_file block of the options sets require_file to true
RequiresFile(options) ==
    /\ "env_file" \in DOMAIN options
    /\ "require_file" \in DOMAIN options["env_file"]
    /\ options["env_file"]["require_file"]

\* constructing a reader with a file provider while the file is absent
C7_ConstructWithoutFile(providers, options) ==
    (Construct(providers, options) /\ HasFileProvider(providers)
        /\ disk = NoFile) =>
        IF RequiresFile(options)
        THEN reader' = [status |-> "failed", providers |-> <<>>,
                        exc |-> "Exception"]
        ELSE /\ reader'.status = "built"
             /\ \A i \in 1..Len(reader'.providers) :
                   reader'.providers[i].cls = "EnvFileProvider"
                       => reader'.providers[i].values = EmptyDict

\* C7: with the file absent at construction, require_file true in the
\* env_file block makes construction fail and leaves no reader; otherwise
\* construction succeeds with an empty file mapping, and every get falls
\* through the file provider to the environment provider or the default.
C7_MissingFile ==
    /\ [][ (reader.status = "none" /\ reader'.status # "none") =>
              \A ps \in ProviderTuples, os \in OptionSets :
                  C7_ConstructWithoutFile(ps, os) ]_vars
    /\ [] ( (reader.status = "built" /\ diskAtInit = NoFile
                /\ result.op = "get") =>
              IF \E i \in 1..Len(Providers) :
                     IsEnv(i) /\ result.key \in DOMAIN environ
              THEN Answered(environ[result.key])
              ELSE AnsweredByDefault )

\* construction failed for want of the file
C7_WitnessRequired ==
    /\ reader.status = "failed"
    /\ reader.exc = "Exception"
    /\ diskAtInit = NoFile

Min(S) == CHOOSE x \in S : \A y \in S : x <= y
Max(S) == CHOOSE x \in S : \A y \in S : x >= y

\* where the lines of a text start, and where the line starting at a ends
LineStarts(text) == {a \in 1..Len(text) : a = 1 \/ text[a - 1] = "\n"}

LineEnd(text, a) ==
    LET newlines == {j \in a..Len(text) : text[j] = "\n"} IN
    IF newlines = {} THEN Len(text) ELSE Min(newlines)

LineAt(text, a) == SubSeq(text, a, LineEnd(text, a))

\* the text between the first and the last character that is not whitespace
Trimmed(s) ==
    LET ink == {i \in 1..Len(s) : s[i] \notin Whitespace} IN
    IF ink = {} THEN <<>> ELSE SubSeq(s, Min(ink), Max(ink))

IsIgnoredLine(line) == line[1] = "#" \/ Trimmed(line) = <<>>

\* the starts of the lines that are neither blank nor comments
DataStarts(text) ==
    {a \in LineStarts(text) : ~IsIgnoredLine(LineAt(text, a))}

EqualsSigns(s) == {i \in 1..Len(s) : s[i] = "="}

KeyOf(line) ==
    LET t == Trimmed(line) IN Trimmed(SubSeq(t, 1, Min(EqualsSigns(t)) - 1))

ValueOf(line) ==
    LET t == Trimmed(line) IN
    Trimmed(SubSeq(t, Min(EqualsSigns(t)) + 1, Len(t)))

\* key -> value of the data lines, a later line replacing an earlier one
ExpectedMapping(text) ==
    LET starts == DataStarts(text)
        keys   == {KeyOf(LineAt(text, a)) : a \in starts}
    IN  [k \in keys |->
            ValueOf(LineAt(text,
                Max({a \in starts : KeyOf(LineAt(text, a)) = k})))]

Constructed == reader.status # "none"

\* C8: over an existing file whose data lines all contain "=", construction
\* succeeds and the mapping is: blank lines and lines starting with "#"
\* skipped, every other line split at its first "=", key and value trimmed.
C8_FileParse ==
    ( /\ Constructed
      /\ diskAtInit # NoFile
      /\ \A a \in DataStarts(diskAtInit) :
            EqualsSigns(LineAt(diskAtInit, a)) # {} )
    => /\ reader.status = "built"
       /\ \A i \in 1..Len(Providers) : IsFile(i) =>
            /\ Providers[i].values = ExpectedMapping(diskAtInit)
            /\ diskAtInit = FileCommentBlankAB =>
                  Providers[i].values =
                      [k \in Keys |-> IF k = <<"A">> THEN <<"1">> ELSE <<"2">>]
            /\ diskAtInit = FileKeyValue =>
                  /\ <<"K", "E", "Y">> \in DOMAIN Providers[i].values
                  /\ Providers[i].values[<<"K", "E", "Y">>]
                        = <<"v", "a", "l", "u", "e">>

\* a line with leading whitespace and two "=" was parsed: the second "="
\* is in the value
C8_Witness ==
    /\ reader.status = "built"
    /\ diskAtInit # NoFile
    /\ \E a \in DataStarts(diskAtInit) :
          LET line == LineAt(diskAtInit, a) IN
          /\ line[1] \in Whitespace
          /\ Cardinality(EqualsSigns(line)) >= 2
          /\ \E i \in 1..Len(Providers) :
                /\ KeyOf(line) \in DOMAIN Providers[i].values
                /\ Providers[i].values[KeyOf(line)] = <<"=">>

\* C9: a data line without "=" anywhere in an existing file makes
\* construction fail; no provider and no reader with a partial mapping.
C9_MalformedLineIsFatal ==
    ( /\ Constructed
      /\ diskAtInit # NoFile
      /\ \E a \in DataStarts(diskAtInit) :
            EqualsSigns(LineAt(diskAtInit, a)) = {} )
    => reader = [status |-> "failed", providers |-> <<>>, exc |-> "ValueError"]

\* construction failed on a line without "=" that stands between two lines
\* with one
C9_Witness ==
    /\ reader.status = "failed"
    /\ diskAtInit # NoFile
    /\ \E a, b, c \in DataStarts(diskAtInit) :
          /\ a < b /\ b < c
          /\ EqualsSigns(LineAt(diskAtInit, a)) # {}
          /\ EqualsSigns(LineAt(diskAtInit, b)) = {}
          /\ EqualsSigns(LineAt(diskAtInit, c)) # {}

\* the same letter, in either case
SameLetter(c, d) ==
    \/ c = d
    \/ {c, d} \in {{"y", "Y"}, {"e", "E"}, {"s", "S"}, {"t", "T"},
                   {"r", "R"}, {"u", "U"}}

EqualsIgnoringCase(s, w) ==
    Len(s) = Len(w) /\ \A i \in 1..Len(s) : SameLetter(s[i], w[i])

TrueWords == {<<"y">>, <<"y", "e", "s">>, <<"t", "r", "u", "e">>, <<"1">>}

\* C4: value_to_bool gives, for text, whether it is y, yes, true or 1 in any
\* case; for a boolean, itself; for an integer, whether it is 1; for any
\* other type, TypeError.
C4_BoolTable ==
    result.op = "value_to_bool" =>
        result.out =
            CASE probe.kind = "str" ->
                    Return(BoolV(\E w \in TrueWords :
                                    EqualsIgnoringCase(probe.s, w)))
              [] probe.kind = "bool" -> Return(probe)
              [] probe.kind = "int"  -> Return(BoolV(probe.n = 1))
              [] OTHER -> Raise("TypeError")

\* value_to_bool("TRUE") returned True
C4_Witness ==
    /\ result.op = "value_to_bool"
    /\ probe = StrV(<<"T", "R", "U", "E">>)
    /\ result.out = Return(BoolV(TRUE))

=============================================================================
